---- MODULE Spec2Model ----
(***************************************************************************)
(* Model of the mar-tools rigging panels (Orienter, Spawner, Colorizer).   *)
(*                                                                         *)
(* The program is single threaded: every entry point runs to completion on *)
(* the host's UI thread, so each entry point is one action.  The host      *)
(* (maya.cmds) is modelled by what an entry point asks of it: the commands *)
(* issued, in order, are recorded in `log`.  A host command that edits the *)
(* scene may raise RuntimeError; the input k of an entry point chooses the *)
(* edit that does (the k-th edit of the call raises; 0: none raises).      *)
(* `entry` is "idle" while control is in the host's event loop; after an   *)
(* entry point has run it names that entry point until Return.             *)
(* Check boxes, radio buttons and spin boxes that no handler writes are    *)
(* read as inputs of the call: the user sets them freely between calls.    *)
(*                                                                         *)
(* Three specifications:                                                   *)
(*   Spec        the three panels open, driven by the user's clicks;       *)
(*   UnitSpec    orient_joints and ColorHelper.override_color called as    *)
(*               units, on every state of the radio groups and on indexes  *)
(*               the panels themselves never produce;                      *)
(*   DialogSpec  CustomDialog.show_dialog from the import of the modules.  *)
(***************************************************************************)
EXTENDS Integers, Sequences, FiniteSets, TLC

(***************************************************************************)
(* Bounds                                                                  *)
(***************************************************************************)
\* longest selection the user makes
MaxSel == 2
\* the host may reject the k-th scene edit of a call, k in 1..MaxFail
MaxFail == 4
\* dialogs of one class constructed before show_dialog is no longer called
MaxInstances == 2

(***************************************************************************)
(* Generic helpers on sequences (python list and str operations)           *)
(***************************************************************************)
RECURSIVE Reverse(_)
\* python: s[::-1]
Reverse(s) == IF s = <<>> THEN <<>> ELSE Append(Reverse(Tail(s)), Head(s))

RECURSIVE Flatten(_)
Flatten(ss) == IF ss = <<>> THEN <<>> ELSE Head(ss) \o Flatten(Tail(ss))

\* python: s.endswith(suf)
EndsWith(s, suf) ==
    /\ Len(s) >= Len(suf)
    /\ SubSeq(s, Len(s) - Len(suf) + 1, Len(s)) = suf

\* python: sub in s
Contains(s, sub) ==
    \E i \in 1..(Len(s) - Len(sub) + 1) : SubSeq(s, i, i + Len(sub) - 1) = sub

\* python: s[:-n]
DropLast(s, n) == IF Len(s) <= n THEN <<>> ELSE SubSeq(s, 1, Len(s) - n)

RECURSIVE Filter(_, _)
\* the elements of s that are in S, in order
Filter(s, S) ==
    IF s = <<>> THEN <<>>
    ELSE IF Head(s) \in S THEN <<Head(s)>> \o Filter(Tail(s), S)
         ELSE Filter(Tail(s), S)

RECURSIVE Orderings(_, _)
\* the sequences of at most n elements of S
Orderings(S, n) ==
    IF n = 0 THEN {<<>>}
    ELSE LET shorter == Orderings(S, n - 1)
         IN  shorter \cup {Append(s, x) : s \in shorter, x \in S}

(***************************************************************************)
(* The scene the tools run against.  A node is its name, a sequence of     *)
(* characters.                                                             *)
(*   a_jnt -> b_jnt -> cTip_jnt   a joint chain ending in a tip joint      *)
(*   d                            a joint without the _jnt suffix          *)
(*   t -> tShape                  a transform with a mesh shape            *)
(***************************************************************************)
J1 == <<"a", "_", "j", "n", "t">>
J2 == <<"b", "_", "j", "n", "t">>
J3 == <<"c", "T", "i", "p", "_", "j", "n", "t">>
J4 == <<"d">>
T1 == <<"t">>
M1 == <<"t", "S", "h", "a", "p", "e">>

Joints == {J1, J2, J3, J4}
MeshShapes == {M1}
\* joints are transforms in the host's type hierarchy
Transforms == Joints \cup {T1}
\* the order in which the host lists the nodes of the scene
DagOrder == <<J1, J2, J3, J4, T1, M1>>
\* the scene with and without its mesh
Scenes == {{J1, J2, J3, J4, T1, M1}, {J1, J2, J3, J4}}
\* what the user picks in the viewport or the outliner
Selectable == {J1, J3, J4, T1}

\* children of a node, in DAG order
Children(n) ==
    CASE n = J1 -> <<J2>>
      [] n = J2 -> <<J3>>
      [] n = T1 -> <<M1>>
      [] OTHER -> <<>>

RECURSIVE Descendents(_)
\* cmds.listRelatives(n, allDescendents=True): deepest nodes first
Descendents(n) ==
    Flatten([i \in 1..Len(Children(n)) |->
                Append(Descendents(Children(n)[i]), Children(n)[i])])

\* the selections the user can make in scene sc
Selections(sc) ==
    {s \in Orderings(Selectable \cap sc, MaxSel) :
        \A i, j \in 1..Len(s) : i # j => s[i] # s[j]}

(***************************************************************************)
(* Widgets of the Orienter: the aim and up radio groups                    *)
(***************************************************************************)
Axes == {"X", "Y", "Z"}
Groups == {"aim", "up"}
\* the six radio buttons aim_x_rb .. up_z_rb
Buttons == [grp : Groups, text : Axes]
Button(g, a) == [grp |-> g, text |-> a]

\* axis_cycle with the last entry mapping Z to itself
axis_cycle_stuck(a) ==
    CASE a = "X" -> "Y"
      [] a = "Y" -> "Z"
      [] a = "Z" -> "Z"

\* axis_cycle written in the opposite direction
axis_cycle_back(a) ==
    CASE a = "X" -> "Z"
      [] a = "Y" -> "X"
      [] a = "Z" -> "Y"

\* orienter.py handle_axis_orientation_toggle: axis_cycle
axis_cycle(a) ==
    CASE a = "X" -> "Y"
      [] a = "Y" -> "Z"
      [] a = "Z" -> "X"

VARIABLES
    aim,        \* text of aim_btn_grp.checkedButton()
    up,         \* text of up_btn_grp.checkedButton()
    conn,       \* per radio button: connections of toggled to the handler
    pending,    \* toggled signals emitted and not yet delivered (senders)
    changed,    \* the radio button the user clicked in this dispatch and
                \* the checked pair before the click
    selection,  \* the host's selection list, in selection order
    scene,      \* the nodes of the scene
    temp,       \* the group "temp" of utility meshes exists
    entry,      \* "idle", or the entry point that has run
    args,       \* the widget values, parameters and selection it read
    log,        \* what the entry point asked of the host, in order
    raised,     \* the exception that left the entry point, or "none"
    returned,   \* the value the entry point returned
    dlg_instance,   \* per dialog class: its own attribute dlg_instance
    instances,      \* the dialogs constructed so far
    hidden          \* the dialogs for which isHidden() is true

vars == <<aim, up, conn, pending, changed, selection, scene, temp,
          entry, args, log, raised, returned,
          dlg_instance, instances, hidden>>

dialogVars == <<dlg_instance, instances, hidden>>
uiVars == <<aim, up, conn, pending, changed, dialogVars>>
hostVars == <<selection, scene, temp>>
callVars == <<entry, args, log, raised, returned>>

NoArgs == [reset_to_world |-> FALSE, auto |-> FALSE, hierarchy |-> FALSE,
           axis |-> "", direction |-> 0,
           value |-> [x |-> 0, y |-> 0, z |-> 0], scope |-> "",
           visible |-> FALSE, curve |-> "", index |-> 0, k |-> 0,
           world_up |-> "", reverse |-> FALSE, color |-> 0, cls |-> "",
           sel |-> <<>>]

NoButton == [grp |-> "none", text |-> "none", aim0 |-> "none", up0 |-> "none"]

(***************************************************************************)
(* Orienter: aim / up conflict resolution                                  *)
(***************************************************************************)
\* QAbstractButton.toggled emitted by button b: one delivery per connection
Emitted(b, c) == [i \in 1..c[b] |-> b]

\* QRadioButton.setChecked(True) on button `a` of an exclusive group whose
\* checked button is `old`: the old button is unchecked first, then `a` is
\* checked, each emitting toggled; nothing happens if `a` is checked already
SetCheckedSignals(g, old, a, c) ==
    IF a = old THEN <<>>
    ELSE Emitted(Button(g, old), c) \o Emitted(Button(g, a), c)

\* disconnect_axis_signals leaving every connection in place
disconnect_axis_signals_none(c) == c

\* orienter.py disconnect_axis_signals
disconnect_axis_signals(c) == [b \in Buttons |-> c[b] - 1]

\* orienter.py reconnect_axis_signals
reconnect_axis_signals(c) == [b \in Buttons |-> c[b] + 1]

\* the if / elif / else chain choosing the radio button to check
ButtonFor(axis) ==
    IF axis = "X" THEN "X" ELSE IF axis = "Y" THEN "Y" ELSE "Z"

\* the sender test made against the up group instead of the aim group
SenderIsAim_swapped(sender) == sender.grp = "up"

\* sender in self.aim_btn_grp.buttons()
SenderIsAim(sender) == sender.grp = "aim"

\* the handler with its test written aim_axis != up_axis
handle_axis_orientation_toggle_inverted(sender, a, u, c) ==
    LET c1 == disconnect_axis_signals(c)
        conflict == a # u
        new_up == IF conflict /\ SenderIsAim(sender)
                  THEN ButtonFor(axis_cycle(u)) ELSE u
        new_aim == IF conflict /\ ~SenderIsAim(sender)
                   THEN ButtonFor(axis_cycle(a)) ELSE a
        nested == SetCheckedSignals("up", u, new_up, c1)
                  \o SetCheckedSignals("aim", a, new_aim, c1)
    IN  [aim |-> new_aim, up |-> new_up,
         conn |-> reconnect_axis_signals(c1), nested |-> nested]

\* orienter.py handle_axis_orientation_toggle, called with sender() = sender
\* on the widget state (a, u, c); the result is the state it leaves and the
\* toggled signals its own setChecked calls delivered
handle_axis_orientation_toggle(sender, a, u, c) ==
    LET c1 == disconnect_axis_signals(c)
        aim_axis == a
        up_axis == u
        conflict == aim_axis = up_axis
        new_up == IF conflict /\ SenderIsAim(sender)
                  THEN ButtonFor(axis_cycle(up_axis)) ELSE u
        new_aim == IF conflict /\ ~SenderIsAim(sender)
                   THEN ButtonFor(axis_cycle(aim_axis)) ELSE a
        nested == SetCheckedSignals("up", u, new_up, c1)
                  \o SetCheckedSignals("aim", a, new_aim, c1)
    IN  [aim |-> new_aim, up |-> new_up,
         conn |-> reconnect_axis_signals(c1), nested |-> nested]

\* the user clicks radio button `a` of group g (a click on the checked
\* button of an exclusive group changes nothing and emits nothing)
UserToggle(g, a) ==
    /\ entry = "idle"
    /\ a # (IF g = "aim" THEN aim ELSE up)
    /\ aim' = (IF g = "aim" THEN a ELSE aim)
    /\ up' = (IF g = "up" THEN a ELSE up)
    /\ pending' = SetCheckedSignals(g, IF g = "aim" THEN aim ELSE up, a, conn)
    /\ changed' = [grp |-> g, text |-> a, aim0 |-> aim, up0 |-> up]
    /\ entry' = "toggle"
    /\ UNCHANGED <<conn, dialogVars, hostVars, args, log, raised, returned>>

\* the toggled signal at the head of the queue reaches the handler
ToggleHandler ==
    /\ entry = "toggle"
    /\ pending # <<>>
    /\ LET r == handle_axis_orientation_toggle(Head(pending), aim, up, conn)
       IN  /\ aim' = r.aim
           /\ up' = r.up
           /\ conn' = r.conn
           /\ pending' = r.nested \o Tail(pending)
    /\ UNCHANGED <<changed, dialogVars, hostVars, callVars>>

\* the user changes the selection in the host
UserSelect(s) ==
    /\ entry = "idle"
    /\ s # selection
    /\ selection' = s
    /\ UNCHANGED <<uiVars, scene, temp, callVars>>

\* control is back in the event loop
Return ==
    /\ entry # "idle"
    /\ pending = <<>>
    /\ entry' = "idle"
    /\ args' = NoArgs
    /\ log' = <<>>
    /\ raised' = "none"
    /\ returned' = "None"
    /\ changed' = NoButton
    /\ UNCHANGED <<aim, up, conn, pending, dialogVars, hostVars>>

(***************************************************************************)
(* The host seen from an entry point                                       *)
(***************************************************************************)
\* one request to the host: op is "undoInfo", "display", "edit" (a scene
\* edit the host performed) or "rejected" (a scene edit the host refused)
Ev(op, cmd, on, arg, num) ==
    [op |-> op, cmd |-> cmd, on |-> on, arg |-> arg, num |-> num]

OpenChunk == Ev("undoInfo", "openChunk", <<>>, <<>>, <<>>)
CloseChunk == Ev("undoInfo", "closeChunk", <<>>, <<>>, <<>>)
DisplayWarning == Ev("display", "displayWarning", <<>>, <<>>, <<>>)
DisplayError == Ev("display", "displayError", <<>>, <<>>, <<>>)

\* the running call: the requests made so far, the exception being raised,
\* the number of edits left before the host rejects one, and the value
\* returned (a python function that has not returned a value returns None)
Start(k) == [log |-> <<>>, exc |-> "none", k |-> k, ret |-> "None"]

\* a statement after a raise is not executed
Do(s, e) == IF s.exc # "none" THEN s ELSE [s EXCEPT !.log = Append(@, e)]

\* a scene edit: the host performs it or raises RuntimeError
Edit(s, cmd, on, arg, num) ==
    IF s.exc # "none" THEN s
    ELSE IF s.k = 1
    THEN [s EXCEPT !.log = Append(@, Ev("rejected", cmd, on, arg, num)),
                   !.exc = "RuntimeError", !.k = 0]
    ELSE [s EXCEPT !.log = Append(@, Ev("edit", cmd, on, arg, num)),
                   !.k = IF @ = 0 THEN 0 ELSE @ - 1]

\* a python exception
Raise(s, e) == IF s.exc # "none" THEN s ELSE [s EXCEPT !.exc = e]

\* a return statement
Returns(s, v) == IF s.exc # "none" THEN s ELSE [s EXCEPT !.ret = v]

\* entering an except clause
Caught(s) == [s EXCEPT !.exc = "none"]

\* a statement of a finally clause: executed whatever is being raised
Finally(s, e) == [s EXCEPT !.log = Append(@, e)]

\* cmds.ls(selection=True, type=...)
ls_selection(types) == Filter(selection, types)

\* cmds.ls(type=...)
ls_all(types) == Filter(DagOrder, types \cap scene)

\* cmds.listRelatives(nodes, allDescendents=True[, type=...]); <<>> is None
listRelatives_ad(nodes, types) ==
    Filter(Flatten([i \in 1..Len(nodes) |-> Descendents(nodes[i])]), types)

\* joint.py JointHelper.get_joints: the list, or the exception it raises
get_joints(hierarchy, all_joints) ==
    IF all_joints THEN [exc |-> "none", val |-> ls_all(Joints)]
    ELSE LET selected_joints == ls_selection(Joints)
             descendants == listRelatives_ad(selected_joints, Joints)
         IN  IF hierarchy /\ selected_joints # <<>>
             THEN IF descendants = <<>>
                  THEN [exc |-> "TypeError", val |-> <<>>]
                  ELSE [exc |-> "none",
                        val |-> selected_joints \o Reverse(descendants)]
             ELSE [exc |-> "none", val |-> selected_joints]

\* joint.py JointHelper.freeze_joint_orientation
freeze_joint_orientation(s, joints_to_orient) ==
    Edit(Edit(s, "joint.zeroScaleOrient", joints_to_orient, <<>>, <<>>),
         "makeIdentity", joints_to_orient, <<>>, <<>>)

(***************************************************************************)
(* Orienter entry points                                                   *)
(***************************************************************************)
\* aim_up_map with the code of ('X', 'Y') repeated at ('Y', 'X')
get_axis_orientation_settings_repeated(a, u) ==
    CASE <<a, u>> = <<"X", "Y">> -> "xyz"
      [] <<a, u>> = <<"X", "Z">> -> "xzy"
      [] <<a, u>> = <<"Y", "Z">> -> "yzx"
      [] <<a, u>> = <<"Y", "X">> -> "xyz"
      [] <<a, u>> = <<"Z", "X">> -> "zxy"
      [] <<a, u>> = <<"Z", "Y">> -> "zyx"
      [] OTHER -> ""

\* orienter.py get_axis_orientation_settings: aim_up_map.get((aim, up), '')
get_axis_orientation_settings(a, u) ==
    CASE <<a, u>> = <<"X", "Y">> -> "xyz"
      [] <<a, u>> = <<"X", "Z">> -> "xzy"
      [] <<a, u>> = <<"Y", "Z">> -> "yzx"
      [] <<a, u>> = <<"Y", "X">> -> "yxz"
      [] <<a, u>> = <<"Z", "X">> -> "zxy"
      [] <<a, u>> = <<"Z", "Y">> -> "zyx"
      [] OTHER -> ""

\* the world up radio group (the text of its checked button) and its
\* Reverse check box as the user leaves them: the defaults (Y, not reversed)
\* and one other setting
WorldUpChoices == {[axis |-> "Y", reverse |-> FALSE],
                   [axis |-> "X", reverse |-> TRUE]}

\* get_world_up_settings with 'down' and 'up' exchanged
get_world_up_settings_exchanged(checked, reverse) ==
    LET direction == IF reverse THEN "up" ELSE "down"
    IN  IF checked = "X" THEN <<"x", direction>>
        ELSE IF checked = "Y" THEN <<"y", direction>>
        ELSE IF checked = "Z" THEN <<"z", direction>>
        ELSE <<"none", direction>>

\* orienter.py get_world_up_settings, `checked` being the text of the world
\* up button for which isChecked() holds ("none" when it holds for none):
\* axis + ('down' | 'up'), kept as the two strings that are concatenated
get_world_up_settings(checked, reverse) ==
    LET direction == IF reverse THEN "down" ELSE "up"
    IN  IF checked = "X" THEN <<"x", direction>>
        ELSE IF checked = "Y" THEN <<"y", direction>>
        ELSE IF checked = "Z" THEN <<"z", direction>>
        ELSE <<"none", direction>>

\* lines 396-401 without the else branch
auto_orient_flags_no_else(checked) ==
    [auto_orient_enable |-> checked, orient_tip |-> FALSE]

\* orienter.py orient_joints, lines 396-401: the two flags derived from
\* the "Auto Orient Up" check box
auto_orient_flags(checked) ==
    IF checked THEN [auto_orient_enable |-> TRUE, orient_tip |-> FALSE]
    ELSE [auto_orient_enable |-> FALSE, orient_tip |-> TRUE]

\* lines 403-406 with the test of reset_to_world left out
axis_orientation_settings_derived(reset_to_world, a, u) ==
    get_axis_orientation_settings(a, u)

\* orienter.py orient_joints, lines 403-406
axis_orientation_settings(reset_to_world, a, u) ==
    IF reset_to_world THEN "none" ELSE get_axis_orientation_settings(a, u)

\* a python bool passed as a flag of a host command
Flag(b) == IF b THEN 1 ELSE 0

\* orienter.py orient_joints, lines 415-426: the body of the try block
orient_try_body(s, selected_joints, settings, world_up, auto, children, orient_tip) ==
    LET s1 == Edit(s, "joint.orientJoint", selected_joints,
                   <<settings>> \o world_up, <<Flag(auto), Flag(children)>>)
        joint_list == ls_selection(Joints)
        relatives == listRelatives_ad(joint_list, scene)
        joint_tip == relatives[1]
    IN  IF ~orient_tip THEN s1
        ELSE IF relatives = <<>> THEN Raise(s1, "TypeError")
        ELSE Edit(s1, "setAttr.jointOrient", <<joint_tip>>, <<>>, <<0, 0, 0>>)

\* orienter.py orient_joints
orient_joints(reset_to_world, auto, hier, wu, rev, k) ==
    LET s0 == Do(Start(k), OpenChunk)
        select_children == hier
        auto_orient_enable == auto_orient_flags(auto).auto_orient_enable
        orient_tip == auto_orient_flags(auto).orient_tip
        settings == axis_orientation_settings(reset_to_world, aim, up)
        selected_joints == get_joints(FALSE, FALSE).val
    IN  IF selected_joints = <<>>
        THEN Do(Do(s0, DisplayWarning), CloseChunk)
        ELSE LET s1 == freeze_joint_orientation(s0, selected_joints)
                 s2 == orient_try_body(s1, selected_joints, settings,
                                       get_world_up_settings(wu, rev),
                                       auto_orient_enable, select_children,
                                       orient_tip)
                 \* except RuntimeError: ... closeChunk; return
                 s3 == IF s2.exc = "RuntimeError"
                       THEN Do(Do(Caught(s2), DisplayError), CloseChunk)
                       ELSE s2
             IN  \* the freeze step is outside the try statement
                 IF s1.exc # "none" THEN s1
                 \* finally: closeChunk
                 ELSE Finally(s3, CloseChunk)

\* CustomSpinBox.DEFAULT_VALUE
DEFAULT_VALUE == 90
\* CustomSpinBox.STEP_VALUE
STEP_VALUE == 15
\* the values the user leaves in the three spin boxes local_axis_tweak_x_sb,
\* _y_sb, _z_sb: the defaults, or x stepped up once and y stepped down once
SpinBoxes == {[x |-> DEFAULT_VALUE, y |-> DEFAULT_VALUE, z |-> DEFAULT_VALUE],
              [x |-> DEFAULT_VALUE + STEP_VALUE,
               y |-> DEFAULT_VALUE - STEP_VALUE, z |-> DEFAULT_VALUE]}

RECURSIVE rotate_loop(_, _, _)
\* orienter.py rotate_local_axis_joint, lines 474-476: the for loop
rotate_loop(s, joints, apply_rotation) ==
    IF joints = <<>> THEN s
    ELSE rotate_loop(
            freeze_joint_orientation(
                Edit(s, "xform.rotateAxis", <<Head(joints)>>,
                     <<"relative", "objectSpace">>, apply_rotation),
                <<Head(joints)>>),
            Tail(joints), apply_rotation)

\* lines 463-472 reading local_axis_tweak_x_sb on every branch
apply_rotation_x_box(axis, direction, sb) ==
    IF axis = "x" THEN <<sb.x * direction, 0, 0>>
    ELSE IF axis = "y" THEN <<0, sb.x * direction, 0>>
    ELSE IF axis = "z" THEN <<0, 0, sb.x * direction>>
    ELSE <<0, 0, 0>>

\* orienter.py rotate_local_axis_joint, lines 463-472: the rotate-axis
\* vector, sb being the values of the three spin boxes
apply_rotation(axis, direction, sb) ==
    IF axis = "x" THEN <<sb.x * direction, 0, 0>>
    ELSE IF axis = "y" THEN <<0, sb.y * direction, 0>>
    ELSE IF axis = "z" THEN <<0, 0, sb.z * direction>>
    ELSE <<0, 0, 0>>

\* orienter.py rotate_local_axis_joint
rotate_local_axis_joint(axis, direction, hier, sb, k) ==
    LET got == get_joints(hier, FALSE)
        selected_joints == got.val
    IN  IF got.exc # "none" THEN Raise(Start(k), got.exc)
        ELSE IF selected_joints = <<>> THEN Do(Start(k), DisplayWarning)
        ELSE Finally(rotate_loop(Do(Start(k), OpenChunk), selected_joints,
                                 apply_rotation(axis, direction, sb)),
                     CloseChunk)

StateWithoutFlushOff == Ev("undoInfo", "stateWithoutFlush", <<>>, <<>>, <<0>>)
StateWithoutFlushOn == Ev("undoInfo", "stateWithoutFlush", <<>>, <<>>, <<1>>)

RECURSIVE visibility_loop(_, _, _)
\* orienter.py toggle_local_axis_visibility, lines 505-507: the for loop
visibility_loop(s, joints, visible) ==
    IF joints = <<>> THEN s
    ELSE visibility_loop(
            Edit(s, "setAttr.displayLocalAxis", <<Head(joints)>>, <<>>,
                 <<Flag(visible)>>),
            Tail(joints), visible)

\* orienter.py toggle_local_axis_visibility
toggle_local_axis_visibility(scope, visible, k) ==
    LET s0 == Do(Start(k), StateWithoutFlushOff)
        got == IF scope = "selected" THEN get_joints(FALSE, FALSE)
               ELSE IF scope = "hierarchy" THEN get_joints(TRUE, FALSE)
               ELSE IF scope = "all" THEN get_joints(FALSE, TRUE)
               ELSE [exc |-> "none", val |-> <<>>]
        joints_to_affect == got.val
    IN  IF got.exc # "none" THEN Raise(s0, got.exc)
        ELSE IF joints_to_affect = <<>> THEN Do(s0, DisplayWarning)
        ELSE Do(visibility_loop(s0, joints_to_affect, visible),
                StateWithoutFlushOn)

\* an entry point has run: what it asked of the host and how it ended
Ran(name, a, s) ==
    /\ entry' = name
    /\ args' = [a EXCEPT !.sel = selection]
    /\ log' = s.log
    /\ raised' = s.exc
    /\ returned' = (IF s.exc = "none" THEN s.ret ELSE "None")

\* "Orient Joints" / "Orient Joints to World" is clicked
OrientJoints(reset_to_world, auto, hier, wu, rev, k) ==
    /\ entry = "idle"
    /\ Ran("orient_joints",
           [NoArgs EXCEPT !.reset_to_world = reset_to_world, !.auto = auto,
                          !.hierarchy = hier, !.world_up = wu,
                          !.reverse = rev, !.k = k],
           orient_joints(reset_to_world, auto, hier, wu, rev, k))
    /\ UNCHANGED <<uiVars, hostVars>>

\* one of the six local axis tweak buttons is clicked
RotateLocalAxisJoint(axis, direction, hier, sb, k) ==
    /\ entry = "idle"
    /\ Ran("rotate_local_axis_joint",
           [NoArgs EXCEPT !.axis = axis, !.direction = direction,
                          !.hierarchy = hier, !.value = sb, !.k = k],
           rotate_local_axis_joint(axis, direction, hier, sb, k))
    /\ UNCHANGED <<uiVars, hostVars>>

\* one of the six local axis visibility buttons is clicked
ToggleLocalAxisVisibility(scope, visible, k) ==
    /\ entry = "idle"
    /\ Ran("toggle_local_axis_visibility",
           [NoArgs EXCEPT !.scope = scope, !.visible = visible, !.k = k],
           toggle_local_axis_visibility(scope, visible, k))
    /\ UNCHANGED <<uiVars, hostVars>>

(***************************************************************************)
(* Spawner entry points                                                    *)
(***************************************************************************)
JntSuffix == <<"_", "j", "n", "t">>
TipMark == <<"T", "i", "p">>
CtlSuffix == <<"_", "c", "t", "l">>
GrpSuffix == <<"_", "g", "r", "p">>
CubeSuffix == <<"c", "u", "b", "e", "_", "t", "m", "p">>
TempGroup == <<"t", "e", "m", "p">>
\* the three "Spawn ... FK Controls" buttons
CurveSelections == {"spine", "arm", "finger"}

RECURSIVE hide_channels(_, _, _)
\* spawner.py spawn_fk_controls, lines 192-198
hide_channels(s, node, attrs) ==
    IF attrs = <<>> THEN s
    ELSE hide_channels(Edit(s, "setAttr.keyable", <<node>>, <<Head(attrs)>>,
                            <<0, 0>>),
                       node, Tail(attrs))

\* curves.py spine_fk_curve, arm_fk_curve, finger_fk_curve, and the group
\* and xform calls that follow each in spawn_fk_controls
make_control(s, curve_selection, curve_node_name, transform_node_name) ==
    IF curve_selection \in {"spine", "arm", "finger"}
    THEN Edit(Edit(Edit(s, IF curve_selection = "arm" THEN "circle"
                           ELSE "curve",
                        <<curve_node_name>>, <<curve_selection>>, <<>>),
                   "group", <<curve_node_name, transform_node_name>>,
                   <<>>, <<>>),
              "xform.pivots", <<transform_node_name>>, <<>>, <<0, 0, 0>>)
    ELSE s

RECURSIVE fk_loop(_, _, _, _, _)
\* spawner.py spawn_fk_controls, lines 147-198: the for loop
fk_loop(s, joints, num, temp_curve_name, curve_selection) ==
    IF joints = <<>> THEN s
    ELSE LET joint == Head(joints)
             curve_node_name == DropLast(joint, 4) \o CtlSuffix
             transform_node_name == DropLast(joint, 4) \o GrpSuffix
             s1 == make_control(s, curve_selection, curve_node_name,
                                transform_node_name)
             s2 == IF num = 0 THEN s1
                   ELSE Edit(s1, "parent",
                             <<transform_node_name, temp_curve_name>>,
                             <<>>, <<>>)
             s3 == Edit(Edit(s2, "parentConstraint",
                             <<joint, transform_node_name>>, <<>>, <<>>),
                        "delete", <<joint, transform_node_name>>,
                        <<"parentConstraint">>, <<>>)
             s4 == Edit(s3, "parentConstraint", <<curve_node_name, joint>>,
                        <<>>, <<>>)
             s5 == hide_channels(s4, curve_node_name,
                                 <<"tx", "ty", "tz", "sx", "sy", "sz", "v">>)
         IN  IF Contains(joint, TipMark) THEN s
             ELSE fk_loop(s5, Tail(joints), num + 1, curve_node_name,
                          curve_selection)

\* spawner.py spawn_fk_controls
spawn_fk_controls(curve_selection, hier, k) ==
    LET got == get_joints(hier, FALSE)
        selected_joints == got.val
    IN  IF got.exc # "none" THEN Raise(Start(k), got.exc)
        ELSE IF selected_joints = <<>> THEN Do(Start(k), DisplayWarning)
        ELSE IF ~EndsWith(selected_joints[1], JntSuffix)
             THEN Do(Start(k), DisplayWarning)
        ELSE Do(fk_loop(Do(Start(k), OpenChunk), selected_joints, 0, <<>>,
                        curve_selection),
                CloseChunk)

RECURSIVE cube_loop(_, _)
\* spawner.py spawn_utility_meshes, lines 232-244: the for loop
cube_loop(s, joints) ==
    IF joints = <<>> THEN s
    ELSE LET joint == Head(joints)
             mesh == DropLast(joint, 4) \o CubeSuffix
         IN  cube_loop(
                Edit(Edit(Edit(Edit(s, "polyCube", <<mesh>>, <<>>,
                                    <<10, 5, 5>>),
                               "parentConstraint", <<joint, mesh>>, <<>>, <<>>),
                          "delete", <<joint, mesh>>, <<"parentConstraint">>,
                          <<>>),
                     "skinCluster", <<joint, mesh>>, <<>>, <<>>),
                Tail(joints))

\* python: [joint[:-4] + "cube_tmp" for joint in joints]
mesh_names(joints) ==
    [i \in 1..Len(joints) |-> DropLast(joints[i], 4) \o CubeSuffix]

\* spawner.py spawn_utility_meshes
spawn_utility_meshes(hier, k) ==
    LET got == get_joints(hier, FALSE)
        selected_joints == got.val
        s1 == cube_loop(Do(Start(k), OpenChunk), selected_joints)
        mesh_list == mesh_names(selected_joints)
        s2 == IF ~temp
              THEN Edit(s1, "group", Append(mesh_list, TempGroup), <<>>, <<>>)
              ELSE Edit(s1, "parent", Append(mesh_list, TempGroup), <<>>, <<>>)
    IN  IF got.exc # "none" THEN Raise(Start(k), got.exc)
        ELSE IF selected_joints = <<>> THEN Do(Start(k), DisplayWarning)
        ELSE IF ~EndsWith(selected_joints[1], JntSuffix)
             THEN Do(Start(k), DisplayWarning)
        ELSE Do(s2, CloseChunk)

\* spawner.py delete_utility_meshes; the host raises ValueError when no
\* object is named "temp"
delete_utility_meshes(k) ==
    IF ~temp THEN Raise(Start(k), "ValueError")
    ELSE Edit(Start(k), "delete", <<TempGroup>>, <<>>, <<>>)

\* names the host gives to the nodes made by spawn_rivet_joint
PinOutput == <<"p", "i", "n">>
Locator == <<"l", "o", "c">>
NewJoint == <<"j", "o", "i", "n", "t">>

\* spawner.py spawn_rivet_joint
spawn_rivet_joint(k) ==
    LET flat == ls_selection(scene)
        s0 == Do(Start(k), OpenChunk)
        s1 == Edit(Edit(s0, "Rivet", flat, <<>>, <<>>),
                   "spaceLocator", <<Locator>>, <<>>, <<>>)
        s2 == Edit(Edit(s1, "parentConstraint", <<PinOutput, Locator>>,
                        <<>>, <<>>),
                   "delete", <<PinOutput, Locator>>, <<"parentConstraint">>,
                   <<>>)
        s3 == Edit(Edit(s2, "orientConstraint", <<PinOutput, Locator>>,
                        <<>>, <<>>),
                   "delete", <<PinOutput, Locator>>, <<"orientConstraint">>,
                   <<>>)
        s4 == Edit(Edit(Edit(s3, "joint", <<NewJoint>>, <<>>, <<>>),
                        "Unparent", <<>>, <<>>, <<>>),
                   "delete", <<PinOutput, Locator>>, <<>>, <<>>)
    IN  IF flat = <<>> THEN Do(Start(k), DisplayWarning)
        ELSE Do(s4, CloseChunk)

\* spawner.py spawn_joint_on_pivot
spawn_joint_on_pivot(k) ==
    LET transforms == ls_selection(Transforms)
        s0 == Do(Start(k), OpenChunk)
        s1 == Edit(s0, "joint", <<NewJoint>>, <<>>, <<>>)
        s2 == Edit(Edit(s1, "parentConstraint", <<transforms[1], NewJoint>>,
                        <<>>, <<>>),
                   "delete", <<transforms[1], NewJoint>>,
                   <<"parentConstraint">>, <<>>)
        s3 == Edit(s2, "Unparent", <<>>, <<>>, <<>>)
    IN  IF transforms = <<>> THEN Do(Start(k), DisplayWarning)
        ELSE Do(s3, CloseChunk)

\* the host has made or removed the group "temp"
TempAfter(s) ==
    IF \E i \in 1..Len(s.log) :
            s.log[i].cmd = "group" /\ s.log[i].on[Len(s.log[i].on)] = TempGroup
    THEN TRUE
    ELSE IF \E i \in 1..Len(s.log) :
            s.log[i].cmd = "delete" /\ s.log[i].on = <<TempGroup>>
    THEN FALSE
    ELSE temp

\* one of the "Spawn ... FK Controls" buttons is clicked
SpawnFkControls(curve_selection, hier, k) ==
    /\ entry = "idle"
    /\ Ran("spawn_fk_controls",
           [NoArgs EXCEPT !.curve = curve_selection, !.hierarchy = hier,
                          !.k = k],
           spawn_fk_controls(curve_selection, hier, k))
    /\ UNCHANGED <<uiVars, hostVars>>

\* "Spawn Utility Cubes" is clicked
SpawnUtilityMeshes(hier, k) ==
    /\ entry = "idle"
    /\ Ran("spawn_utility_meshes", [NoArgs EXCEPT !.hierarchy = hier, !.k = k],
           spawn_utility_meshes(hier, k))
    /\ temp' = TempAfter(spawn_utility_meshes(hier, k))
    /\ UNCHANGED <<uiVars, selection, scene>>

\* "Delete Utility Meshes" is clicked
DeleteUtilityMeshes(k) ==
    /\ entry = "idle"
    /\ Ran("delete_utility_meshes", [NoArgs EXCEPT !.k = k],
           delete_utility_meshes(k))
    /\ temp' = TempAfter(delete_utility_meshes(k))
    /\ UNCHANGED <<uiVars, selection, scene>>

\* "Spawn Rivet Joint" is clicked
SpawnRivetJoint(k) ==
    /\ entry = "idle"
    /\ Ran("spawn_rivet_joint", [NoArgs EXCEPT !.k = k], spawn_rivet_joint(k))
    /\ UNCHANGED <<uiVars, hostVars>>

\* "Spawn Joint on Pivot" is clicked
SpawnJointOnPivot(k) ==
    /\ entry = "idle"
    /\ Ran("spawn_joint_on_pivot", [NoArgs EXCEPT !.k = k],
           spawn_joint_on_pivot(k))
    /\ UNCHANGED <<uiVars, hostVars>>

(***************************************************************************)
(* Colorizer entry points                                                  *)
(***************************************************************************)
\* ColorHelper.MAX_OVERRIDE_COLORS
MAX_OVERRIDE_COLORS == 32
\* len(preset_colors) in colorize_mesh_id
NumPresetColors == 14
\* the swatches the user clicks: the first and the last of the palette
ColorIndexes == {0, MAX_OVERRIDE_COLORS - 1}
\* what random.choice(preset_colors) returns: the first or the last preset
ColorChoices == {1, NumPresetColors}

\* cmds.listRelatives(node, parent=True)[0]
ParentOf(n) == CHOOSE p \in Transforms : \E i \in 1..Len(Children(p)) :
                                            Children(p)[i] = n

\* color.py ColorHelper.get_shape_nodes; None and [] are both <<>>
get_shape_nodes ==
    LET sel == ls_selection(scene)
    IN  Flatten([i \in 1..Len(sel) |-> Filter(Children(sel[i]), MeshShapes)])

RECURSIVE override_loop(_, _, _)
\* color.py ColorHelper.override_color, lines 61-66: the for loop
override_loop(s, shapes, color_index) ==
    IF shapes = <<>> THEN s
    ELSE LET shape == Head(shapes)
             s1 == Edit(Edit(s, "setAttr.overrideEnabled", <<shape>>, <<>>,
                             <<1>>),
                        "setAttr.overrideColor", <<shape>>, <<>>,
                        <<color_index>>)
             s2 == IF s1.exc = "RuntimeError"
                   THEN Do(Caught(s1), DisplayWarning)
                   ELSE s1
         IN  override_loop(s2, Tail(shapes), color_index)

\* override_color with the upper limit tested by > instead of >=
override_color_off_by_one(s, color_index) ==
    LET shapes == get_shape_nodes
    IN  IF color_index > MAX_OVERRIDE_COLORS \/ color_index < 0
        THEN Returns(Do(s, DisplayError), "False")
        ELSE IF shapes = <<>> THEN Returns(Do(s, DisplayError), "False")
        ELSE Returns(override_loop(s, shapes, color_index), "None")

\* color.py ColorHelper.override_color
override_color(s, color_index) ==
    LET shapes == get_shape_nodes
    IN  IF color_index >= MAX_OVERRIDE_COLORS \/ color_index < 0
        THEN Returns(Do(s, DisplayError), "False")
        ELSE IF shapes = <<>> THEN Returns(Do(s, DisplayError), "False")
        ELSE Returns(override_loop(s, shapes, color_index), "None")

\* colorizer.py select_color followed by colorize_shape
colorize_shape(index, k) ==
    LET selected_index == index
        s0 == Do(Start(k), OpenChunk)
        s1 == IF selected_index # -1 THEN override_color(s0, selected_index)
              ELSE s0
    IN  \* the value of override_color is dropped
        Returns(Do(s1, CloseChunk), "None")

\* cmds.ls(selection=True, dagObjects=True, shapes=True, type='mesh') or
\* cmds.ls(type='mesh')
target_meshes ==
    LET sel == ls_selection(scene)
        selected_meshes ==
            Filter(Flatten([i \in 1..Len(sel) |->
                               <<sel[i]>> \o Reverse(Descendents(sel[i]))]),
                   MeshShapes)
    IN  IF selected_meshes # <<>> THEN selected_meshes ELSE ls_all(MeshShapes)

RECURSIVE mesh_id_loop(_, _, _)
\* colorizer.py colorize_mesh_id, lines 185-200: the for loop
mesh_id_loop(s, meshes, color) ==
    IF meshes = <<>> THEN s
    ELSE LET transform_node == ParentOf(Head(meshes))
             s1 == Edit(Edit(s, "select", <<transform_node>>, <<"replace">>,
                             <<>>),
                        "polyColorPerVertex", <<transform_node>>, <<>>,
                        <<color>>)
             s2 == IF s1.exc # "none" THEN Do(Caught(s1), DisplayError)
                   ELSE s1
         IN  mesh_id_loop(s2, Tail(meshes), color)

\* colorizer.py colorize_mesh_id; color is what random.choice returns
colorize_mesh_id(color, k) ==
    LET s0 == Do(Start(k), OpenChunk)
        selected_meshes == target_meshes
    IN  IF selected_meshes = <<>> THEN Do(s0, DisplayWarning)
        ELSE Do(mesh_id_loop(s0, selected_meshes, color), CloseChunk)

RECURSIVE remove_loop(_, _)
\* colorizer.py decolorize_mesh_id, lines 219-220: the for loop
remove_loop(s, meshes) ==
    IF meshes = <<>> THEN s
    ELSE remove_loop(Edit(s, "polyColorPerVertex", <<Head(meshes)>>,
                          <<"remove">>, <<>>),
                     Tail(meshes))

\* colorizer.py decolorize_mesh_id
decolorize_mesh_id(k) ==
    LET s0 == Do(Start(k), OpenChunk)
        selected_meshes == target_meshes
    IN  IF selected_meshes = <<>> THEN Do(s0, DisplayWarning)
        ELSE Do(remove_loop(s0, selected_meshes), CloseChunk)

RECURSIVE defaults_loop(_, _)
\* colorizer.py use_defaults, lines 241-246: the for loop
defaults_loop(s, shapes) ==
    IF shapes = <<>> THEN s
    ELSE LET s1 == Edit(s, "setAttr.overrideEnabled", <<Head(shapes)>>, <<>>,
                        <<0>>)
             s2 == IF s1.exc = "RuntimeError"
                   THEN Do(Caught(s1), DisplayError)
                   ELSE s1
         IN  defaults_loop(s2, Tail(shapes))

\* use_defaults without its check for an empty shape list
use_defaults_unguarded(k) == defaults_loop(Start(k), get_shape_nodes)

\* colorizer.py use_defaults
use_defaults(k) ==
    LET shapes == get_shape_nodes
    IN  IF shapes = <<>> THEN Do(Start(k), DisplayWarning)
        ELSE defaults_loop(Start(k), shapes)

\* cmds.select(node, replace=True) leaves node as the selection
SelectionAfter(s) ==
    LET picks == {i \in 1..Len(s.log) : s.log[i].cmd = "select"}
    IN  IF picks = {} THEN selection
        ELSE s.log[CHOOSE i \in picks : \A j \in picks : j <= i].on

\* a colour swatch is clicked
ColorizeShape(index, k) ==
    /\ entry = "idle"
    /\ Ran("colorize_shape", [NoArgs EXCEPT !.index = index, !.k = k],
           colorize_shape(index, k))
    /\ UNCHANGED <<uiVars, hostVars>>

\* a script calls ColorHelper.override_color(index)
OverrideColor(index, k) ==
    /\ entry = "idle"
    /\ Ran("override_color", [NoArgs EXCEPT !.index = index, !.k = k],
           override_color(Start(k), index))
    /\ UNCHANGED <<uiVars, hostVars>>

\* "Generate Mesh ID" is clicked
ColorizeMeshId(color, k) ==
    /\ entry = "idle"
    /\ Ran("colorize_mesh_id", [NoArgs EXCEPT !.color = color, !.k = k],
           colorize_mesh_id(color, k))
    /\ selection' = SelectionAfter(colorize_mesh_id(color, k))
    /\ UNCHANGED <<uiVars, scene, temp>>

\* "Delete Mesh ID" is clicked
DecolorizeMeshId(k) ==
    /\ entry = "idle"
    /\ Ran("decolorize_mesh_id", [NoArgs EXCEPT !.k = k], decolorize_mesh_id(k))
    /\ UNCHANGED <<uiVars, hostVars>>

\* "Set to Default" is clicked
UseDefaults(k) ==
    /\ entry = "idle"
    /\ Ran("use_defaults", [NoArgs EXCEPT !.k = k], use_defaults(k))
    /\ UNCHANGED <<uiVars, hostVars>>

(***************************************************************************)
(* The dialogs: CustomDialog.show_dialog                                   *)
(***************************************************************************)
\* widgets.py CustomDialog and its subclasses in orienter.py, spawner.py,
\* colorizer.py
Dialogs == {"CustomDialog", "OrienterWidget", "SpawnerWidget",
            "ColorizerWidget"}
Tools == Dialogs \ {"CustomDialog"}

\* dlg_instance = None in the body of CustomDialog
NoInstance == [cls |-> "None", n |-> 0]
\* a subclass has no attribute dlg_instance of its own until it is assigned
Unset == [cls |-> "unset", n |-> 0]

\* the instances of class c constructed so far
InstancesOf(c, insts) == {i \in insts : i.cls = c}

\* python attribute lookup cls.dlg_instance: the class's own attribute, or
\* the one inherited from CustomDialog
class_attr(c, attr) ==
    IF attr[c] # Unset THEN attr[c] ELSE attr["CustomDialog"]

\* show_dialog constructing a dialog on every call
show_dialog_always_new(c, attr, insts, hid) ==
    LET new == [cls |-> c, n |-> Cardinality(InstancesOf(c, insts)) + 1]
    IN  [dlg_instance |-> [attr EXCEPT ![c] = new],
         instances |-> insts \cup {new},
         hidden |-> hid,
         log |-> <<Ev("ui", "construct", <<>>, <<c>>, <<new.n>>),
                   Ev("ui", "isHidden", <<>>, <<c>>, <<new.n, 1>>),
                   Ev("ui", "show", <<>>, <<c, "dockable">>, <<new.n>>)>>]

\* widgets.py CustomDialog.show_dialog called on class c: the class
\* attributes, the dialogs and the hidden dialogs it leaves, and what it
\* asked of the toolkit (a QWidget is hidden when constructed)
show_dialog(c, attr, insts, hid) ==
    LET found == class_attr(c, attr)
        new == [cls |-> c, n |-> Cardinality(InstancesOf(c, insts)) + 1]
        made == found = NoInstance
        inst == IF made THEN new ELSE found
        hid1 == IF made THEN hid \cup {new} ELSE hid
        is_hidden == inst \in hid1
    IN  [dlg_instance |-> IF made THEN [attr EXCEPT ![c] = new] ELSE attr,
         instances |-> IF made THEN insts \cup {new} ELSE insts,
         hidden |-> IF is_hidden THEN hid1 \ {inst} ELSE hid1,
         log |-> (IF made
                  THEN <<Ev("ui", "construct", <<>>, <<c>>, <<new.n>>)>>
                  ELSE <<>>)
                 \o <<Ev("ui", "isHidden", <<>>, <<inst.cls>>,
                         <<inst.n, Flag(is_hidden)>>)>>
                 \o (IF is_hidden
                     THEN <<Ev("ui", "show", <<>>, <<inst.cls, "dockable">>,
                               <<inst.n>>)>>
                     ELSE <<Ev("ui", "raise_", <<>>, <<inst.cls>>,
                               <<inst.n>>),
                            Ev("ui", "activateWindow", <<>>, <<inst.cls>>,
                               <<inst.n>>)>>)]

\* a script or shelf button calls <class>.show_dialog()
ShowDialog(c) ==
    /\ entry = "idle"
    /\ Cardinality(InstancesOf(c, instances)) < MaxInstances
    /\ LET r == show_dialog(c, dlg_instance, instances, hidden)
       IN  /\ dlg_instance' = r.dlg_instance
           /\ instances' = r.instances
           /\ hidden' = r.hidden
           /\ entry' = "show_dialog"
           /\ args' = [NoArgs EXCEPT !.cls = c]
           /\ log' = r.log
           /\ raised' = "none"
           /\ returned' = "None"
    /\ UNCHANGED <<aim, up, conn, pending, changed, hostVars>>

\* the user closes a dialog that is showing: the toolkit hides it
UserClose(i) ==
    /\ entry = "idle"
    /\ i \in instances \ hidden
    /\ hidden' = hidden \cup {i}
    /\ UNCHANGED <<aim, up, conn, pending, changed, dlg_instance, instances,
                   hostVars, callVars>>

(***************************************************************************)
(* The tools after construction, and what can happen next                  *)
(***************************************************************************)
\* the three tools have been opened, each by one call of show_dialog
OpenedTools == [c \in Dialogs |-> IF c = "CustomDialog" THEN NoInstance
                                  ELSE [cls |-> c, n |-> 1]]

\* the widgets as create_widgets and create_connections leave them, an
\* untouched scene, and no call under way
Constructed ==
    /\ conn = [b \in Buttons |-> 1]
    /\ pending = <<>>
    /\ changed = NoButton
    /\ selection = <<>>
    /\ scene \in Scenes
    /\ temp = FALSE
    /\ entry = "idle"
    /\ args = NoArgs
    /\ log = <<>>
    /\ raised = "none"
    /\ returned = "None"

Init ==
    /\ aim = "X"
    /\ up = "Y"
    /\ Constructed
    /\ dlg_instance = OpenedTools
    /\ instances = {OpenedTools[c] : c \in Tools}
    /\ hidden = {}

Fails == 0..MaxFail

Next ==
    \/ \E g \in Groups, a \in Axes : UserToggle(g, a)
    \/ ToggleHandler
    \/ \E s \in Selections(scene) : UserSelect(s)
    \/ Return
    \/ \E reset \in BOOLEAN, auto \in BOOLEAN, hier \in BOOLEAN,
          w \in WorldUpChoices, k \in Fails :
            OrientJoints(reset, auto, hier, w.axis, w.reverse, k)
    \/ \E axis \in {"x", "y", "z"}, direction \in {1, -1}, hier \in BOOLEAN,
          sb \in SpinBoxes, k \in Fails :
            RotateLocalAxisJoint(axis, direction, hier, sb, k)
    \/ \E scope \in {"selected", "hierarchy", "all"}, visible \in BOOLEAN,
          k \in Fails : ToggleLocalAxisVisibility(scope, visible, k)
    \/ \E c \in CurveSelections, hier \in BOOLEAN, k \in Fails :
            SpawnFkControls(c, hier, k)
    \/ \E hier \in BOOLEAN, k \in Fails : SpawnUtilityMeshes(hier, k)
    \/ \E k \in Fails : DeleteUtilityMeshes(k)
    \/ \E k \in Fails : SpawnRivetJoint(k)
    \/ \E k \in Fails : SpawnJointOnPivot(k)
    \/ \E index \in ColorIndexes, k \in Fails : ColorizeShape(index, k)
    \/ \E color \in ColorChoices, k \in Fails : ColorizeMeshId(color, k)
    \/ \E k \in Fails : DecolorizeMeshId(k)
    \/ \E k \in Fails : UseDefaults(k)

Spec == Init /\ [][Next]_vars

(***************************************************************************)
(* The methods as units: orient_joints on any state of the radio groups    *)
(* it reads, ColorHelper.override_color on any index                       *)
(***************************************************************************)
\* the text of the checked world up button, "none" when none is checked
WorldUpStates == {"X", "Y", "Z", "none"}
\* indexes at and around the ends of the range of override_color
Indexes == {-1, 0, MAX_OVERRIDE_COLORS - 1, MAX_OVERRIDE_COLORS}

UnitInit ==
    /\ aim \in Axes
    /\ up \in Axes
    /\ Constructed
    /\ dlg_instance = OpenedTools
    /\ instances = {OpenedTools[c] : c \in Tools}
    /\ hidden = {}

UnitNext ==
    \/ \E s \in Selections(scene) : UserSelect(s)
    \/ Return
    \/ \E reset \in BOOLEAN, auto \in BOOLEAN, hier \in BOOLEAN,
          w \in WorldUpStates, rev \in BOOLEAN, k \in Fails :
            OrientJoints(reset, auto, hier, w, rev, k)
    \/ \E index \in Indexes, k \in Fails : OverrideColor(index, k)

UnitSpec == UnitInit /\ [][UnitNext]_vars

(***************************************************************************)
(* The dialogs from the import of the modules on: show_dialog is called,   *)
(* the user closes dialogs                                                 *)
(***************************************************************************)
\* the class attributes once ui.widgets and the tools are imported
Imported == [c \in Dialogs |-> IF c = "CustomDialog" THEN NoInstance
                               ELSE Unset]

DialogInit ==
    /\ aim = "X"
    /\ up = "Y"
    /\ Constructed
    /\ dlg_instance = Imported
    /\ instances = {}
    /\ hidden = {}

DialogNext ==
    \/ \E c \in Dialogs : ShowDialog(c)
    \/ \E i \in instances : UserClose(i)
    \/ Return

DialogSpec == DialogInit /\ [][DialogNext]_vars

(***************************************************************************)
(* Properties                                                              *)
(***************************************************************************)
\* the requests of the call that are equal to e
Count(e) == Cardinality({i \in 1..Len(log) : log[i] = e})

\* undo brackets open after the first n requests of the call
Depth(n) ==
    Cardinality({i \in 1..n : log[i] = OpenChunk})
    - Cardinality({i \in 1..n : log[i] = CloseChunk})

Edits == {i \in 1..Len(log) : log[i].op = "edit"}
Rejections == {i \in 1..Len(log) : log[i].op = "rejected"}
Displayed(e) == \E i \in 1..Len(log) : log[i] = e

\* the handler has returned for the user's change
Resolved == entry = "toggle" /\ Len(pending) < 2

\* one step of the cycle X -> Y -> Z -> X
CycleStep == {<<"X", "Y">>, <<"Y", "Z">>, <<"Z", "X">>}

\* C1: once handle_axis_orientation_toggle has returned for a user change
\* of the aim or up group (and in the default selection), the checked aim
\* axis differs from the checked up axis.
C1_AimUpDiffer == (entry # "toggle" \/ Resolved) => aim # up

\* a conflict (aim Y clicked while up is Y) has been resolved
C1_Witness ==
    /\ Resolved
    /\ changed = [grp |-> "aim", text |-> "Y", aim0 |-> "X", up0 |-> "Y"]
    /\ aim = "Y"
    /\ up = "Z"

\* C2: when the user's change makes aim equal to up, the handler keeps the
\* changed axis at the user's value and moves the other axis exactly one
\* step along X -> Y -> Z -> X from the conflicting value; when the change
\* makes no conflict, neither axis is touched.
C2_OtherAxisAdvanced ==
    Resolved =>
        /\ changed.grp = "aim" =>
            /\ aim = changed.text
            /\ IF changed.text = changed.up0
               THEN <<changed.up0, up>> \in CycleStep
               ELSE up = changed.up0
        /\ changed.grp = "up" =>
            /\ up = changed.text
            /\ IF changed.text = changed.aim0
               THEN <<changed.aim0, aim>> \in CycleStep
               ELSE aim = changed.aim0

\* the user set up to Z while aim was Z: aim has wrapped around to X
C2_Witness ==
    /\ Resolved
    /\ changed = [grp |-> "up", text |-> "Z", aim0 |-> "Z", up0 |-> "X"]
    /\ aim = "X"
    /\ up = "Z"

\* C3 as stated: with aim = X, after the user selects up = X the handler
\* leaves aim = X and advances up to Y.
C3_AsStated ==
    (Resolved /\ changed.grp = "up" /\ changed.text = "X"
              /\ changed.aim0 = "X")
        => (aim = "X" /\ up = "Y")

\* C3 amended: with aim = X, after the user selects up = X the handler
\* leaves up = X, the axis the user chose, and advances aim to Y.
C3_UpKeptAimAdvanced ==
    (Resolved /\ changed.grp = "up" /\ changed.text = "X"
              /\ changed.aim0 = "X")
        => (up = "X" /\ aim = "Y")

\* from the default pair the user has selected up = X
C3_Witness ==
    /\ Resolved
    /\ changed = [grp |-> "up", text |-> "X", aim0 |-> "X", up0 |-> "Y"]
    /\ aim = "Y"
    /\ up = "X"

\* C4: every execution of orient_joints opens the undo bracket exactly once
\* and closes it exactly once, whichever path it takes.
C4_BracketOnce ==
    entry = "orient_joints" => (Count(OpenChunk) = 1 /\ Count(CloseChunk) = 1)

\* the entry point displayed a message and returned before any scene edit
EarlyReturn ==
    /\ raised = "none"
    /\ Edits = {}
    /\ Displayed(DisplayWarning) \/ Displayed(DisplayError)

\* C5: an entry point that has opened an undo bracket and takes an early
\* return has closed the bracket when it returns.
C5_EarlyReturnCloses ==
    (entry # "idle" /\ EarlyReturn /\ Count(OpenChunk) > 0)
        => Depth(Len(log)) = 0

\* the entry points of C6
C6Entries == {"spawn_fk_controls", "spawn_utility_meshes", "spawn_rivet_joint",
              "spawn_joint_on_pivot", "rotate_local_axis_joint",
              "decolorize_mesh_id"}

\* C6: if a host command raises after one of these entry points has opened
\* its undo bracket, the bracket is closed when control leaves the entry
\* point.
C6_HostErrorCloses ==
    (entry \in C6Entries /\ \E i \in Rejections : Depth(i - 1) > 0)
        => Depth(Len(log)) = 0

\* C7: every scene edit of an entry point is made while an undo bracket
\* opened by that entry point is open.
C7_EditsInsideBracket ==
    entry # "idle" => \A i \in Edits : Depth(i - 1) > 0

\* the entry points of C8
C8Entries == {"orient_joints", "rotate_local_axis_joint",
              "toggle_local_axis_visibility", "spawn_fk_controls",
              "spawn_utility_meshes", "spawn_rivet_joint",
              "spawn_joint_on_pivot", "colorize_shape", "use_defaults",
              "colorize_mesh_id", "decolorize_mesh_id"}

\* the entry point was invoked while nothing was selected
EmptySelectionCall ==
    /\ entry \in C8Entries
    /\ entry = "toggle_local_axis_visibility"
        => args.scope \in {"selected", "hierarchy"}
    /\ args.sel = <<>>

\* C8 as stated: an orchestration entry point invoked while the selection
\* is empty ends in a warning outcome (a message is displayed and nothing
\* is raised) and makes no scene edit.
C8_AsStated ==
    EmptySelectionCall =>
        /\ Displayed(DisplayWarning) \/ Displayed(DisplayError)
        /\ raised = "none"
        /\ Edits = {}

MeshIdEntries == {"colorize_mesh_id", "decolorize_mesh_id"}

\* C8 amended: invoked while the selection is empty, an orchestration entry
\* point other than colorize_mesh_id and decolorize_mesh_id displays a
\* message (an error message for colorize_shape, a warning for the others),
\* raises nothing and makes no scene edit; colorize_mesh_id and
\* decolorize_mesh_id do so when the scene holds no mesh (otherwise they
\* fall back to every mesh of the scene).
C8_EmptySelectionNoEdit ==
    (EmptySelectionCall /\ (entry \in MeshIdEntries => ls_all(MeshShapes) = <<>>))
        => /\ Edits = {}
           /\ raised = "none"
           /\ IF entry = "colorize_shape" THEN Displayed(DisplayError)
              ELSE Displayed(DisplayWarning)

\* use_defaults was clicked with nothing selected
C8_Witness ==
    /\ entry = "use_defaults"
    /\ args.sel = <<>>
    /\ log = <<DisplayWarning>>

\* C9: orient_joints catches a host failure at its boundary: no exception
\* leaves it, and when the host rejected an edit a message is displayed.
C9_NoExceptionEscapes ==
    entry = "orient_joints" =>
        /\ raised = "none"
        /\ Rejections # {}
            => (Displayed(DisplayError) \/ Displayed(DisplayWarning))

\* joints that have no child joint
TipJoints ==
    {j \in Joints : \A i \in 1..Len(Children(j)) : Children(j)[i] \notin Joints}

\* C10: when auto-orient is off and the orientation edit of orient_joints
\* succeeded (the host rejecting nothing), jointOrient of a tip joint is set
\* to (0, 0, 0) after the orientation edit and before the bracket is closed.
C10_TipZeroed ==
    (entry = "orient_joints" /\ ~args.auto /\ args.k = 0
        /\ \E i \in Edits : log[i].cmd = "joint.orientJoint")
    => \E i, j, c \in 1..Len(log) :
          /\ i < j /\ j < c
          /\ log[i].cmd = "joint.orientJoint"
          /\ log[j].cmd = "setAttr.jointOrient"
          /\ log[j].on[1] \in TipJoints
          /\ log[j].num = <<0, 0, 0>>
          /\ log[c] = CloseChunk


\* C20: after any sequence of show_dialog calls no class has had more than
\* one instance constructed; a call asks isHidden of the class's instance
\* and then shows it when it is hidden and otherwise raises and activates
\* it, and leaves it showing
C20_OneDialogPerClass ==
    /\ \A c \in Dialogs : Cardinality(InstancesOf(c, instances)) <= 1
    /\ entry = "show_dialog" =>
        LET i == CHOOSE j \in 1..Len(log) : log[j].cmd = "isHidden"
            inst == class_attr(args.cls, dlg_instance)
        IN  /\ Cardinality({j \in 1..Len(log) : log[j].cmd = "isHidden"}) = 1
            /\ inst \in instances \ hidden
            /\ log[i].arg = <<inst.cls>> /\ log[i].num[1] = inst.n
            /\ [j \in 1..(Len(log) - i) |-> log[i + j].cmd] =
                    (IF log[i].num[2] = 1 THEN <<"show">>
                     ELSE <<"raise_", "activateWindow">>)

\* show_dialog is called on a class whose dialog exists and is showing: it
\* is raised and activated and remains the only one of its class
C20_Witness ==
    /\ entry = "show_dialog"
    /\ args.cls = "OrienterWidget"
    /\ log[1].cmd = "isHidden" /\ log[1].num[2] = 0
    /\ Cardinality(InstancesOf("OrienterWidget", instances)) = 1

\* the requests of the call, performed or rejected, whose command is in cmds
Issued(cmds) == {i \in 1..Len(log) : log[i].op \in {"edit", "rejected"}
                                       /\ log[i].cmd \in cmds}

\* the commands of freeze_joint_orientation and the orientation command
FreezeCmds == {"joint.zeroScaleOrient", "makeIdentity"}
OrientCmds == {"joint.orientJoint"}

ValidPairs == {p \in Axes \X Axes : p[1] # p[2]}

\* C12: the code orient_joints(reset_to_world=False) gets from
\* get_axis_orientation_settings for the checked (aim, up) pair, one of the
\* six with aim # up, is not empty and is the code of no other such pair
C12_CodesDistinct ==
    (entry = "orient_joints" /\ ~args.reset_to_world) =>
        /\ <<aim, up>> \in ValidPairs
        /\ \A i \in Issued(OrientCmds) :
            /\ log[i].arg[1] # ""
            /\ \A p \in ValidPairs :
                   get_axis_orientation_settings(p[1], p[2]) = log[i].arg[1]
                   => p = <<aim, up>>

\* orient_joints has passed the code of the pair (Z, Y) to the host
C12_Witness ==
    /\ entry = "orient_joints"
    /\ ~args.reset_to_world
    /\ <<aim, up>> = <<"Z", "Y">>
    /\ \E i \in Issued(OrientCmds) : log[i].arg[1] = "zyx"

\* the lower-case name of the chosen world axis, 'none' when none is chosen
LowerCase == [w \in WorldUpStates |->
                 IF w = "X" THEN "x" ELSE IF w = "Y" THEN "y"
                 ELSE IF w = "Z" THEN "z" ELSE "none"]

\* C13: the secondaryAxisOrient value orient_joints gets from
\* get_world_up_settings is the lower-case chosen world axis, or 'none' when
\* no world axis is chosen, followed by 'down' when Reverse is checked and
\* by 'up' otherwise
C13_WorldUpCode ==
    entry = "orient_joints" =>
        \A i \in Issued(OrientCmds) :
            /\ log[i].arg[2] = LowerCase[args.world_up]
            /\ log[i].arg[3] = (IF args.reverse THEN "down" ELSE "up")
            /\ (args.world_up = "Y" /\ args.reverse
                    => SubSeq(log[i].arg, 2, 3) = <<"y", "down">>)
            /\ (args.world_up = "none" /\ ~args.reverse
                    => SubSeq(log[i].arg, 2, 3) = <<"none", "up">>)

\* orient_joints has run with no world up button checked and Reverse
\* unchecked, and has passed 'noneup'
C13_Witness ==
    /\ entry = "orient_joints"
    /\ args.world_up = "none"
    /\ ~args.reverse
    /\ \E i \in Issued(OrientCmds) :
            SubSeq(log[i].arg, 2, 3) = <<"none", "up">>

\* the entry points that require the suffix '_jnt'
SuffixEntries == {"spawn_fk_controls", "spawn_utility_meshes"}

\* the joints the entry point that has run was given by get_joints (these
\* entry points leave the selection as it was)
Targeted == get_joints(args.hierarchy, FALSE)

\* C14: when any joint targeted by spawn_fk_controls or spawn_utility_meshes
\* has a name that does not end with '_jnt', the entry point displays a
\* warning and asks the host to create nothing
C14_AnyWrongSuffixAborts ==
    (/\ entry \in SuffixEntries
     /\ Targeted.exc = "none"
     /\ \E i \in 1..Len(Targeted.val) : ~EndsWith(Targeted.val[i], JntSuffix))
    => /\ Displayed(DisplayWarning)
       /\ Edits \cup Rejections = {}

\* the suffix the naming convention gives to curve nodes
CrvSuffix == <<"_", "c", "r", "v">>

\* C15: for every joint spawn_fk_controls has processed (it constrained a
\* group to it), base being the joint's name without '_jnt', the group is
\* named <base>_grp and a curve named <base>_crv was created
C15_ControlNames ==
    entry = "spawn_fk_controls" =>
        \A i \in Edits :
            (/\ log[i].cmd = "parentConstraint"
             /\ log[i].on[1] \in Joints
             /\ EndsWith(log[i].on[1], JntSuffix))
            => LET joint == log[i].on[1]
                   base == SubSeq(joint, 1, Len(joint) - Len(JntSuffix))
               IN  /\ log[i].on[2] = base \o GrpSuffix
                   /\ \E c \in Edits :
                        /\ log[c].cmd \in {"curve", "circle"}
                        /\ log[c].on = <<base \o CrvSuffix>>

\* an entry point that calls JointHelper.get_joints(hierarchy=True) has run
HierarchyCall ==
    \/ entry \in {"rotate_local_axis_joint", "spawn_fk_controls",
                  "spawn_utility_meshes"} /\ args.hierarchy
    \/ entry = "toggle_local_axis_visibility" /\ args.scope = "hierarchy"

\* the joints below the joints of s
JointsBelow(s) ==
    UNION {{Descendents(s[i])[j] : j \in 1..Len(Descendents(s[i]))} \cap Joints
           : i \in 1..Len(s)}

\* C16: get_joints(hierarchy=True) does not raise; it returns the selected
\* joints followed by their descendant joints, which is the selected joints
\* alone when they have no descendant joint and the empty list when no
\* joint is selected
C16_GetJointsNeverRaises ==
    HierarchyCall =>
        LET got == get_joints(TRUE, FALSE)
            sel == Filter(args.sel, Joints)
        IN  /\ got.exc = "none"
            /\ raised # "TypeError"
            /\ Len(got.val) >= Len(sel)
            /\ SubSeq(got.val, 1, Len(sel)) = sel
            /\ {got.val[i] : i \in (Len(sel) + 1)..Len(got.val)} =
                    JointsBelow(sel)

\* the host performed cmd on node with the numbers num
Performed(cmd, node, num) ==
    \E i \in Edits : log[i].cmd = cmd /\ log[i].on = <<node>>
                      /\ log[i].num = num

\* C17: override_color returns False and asks for no attribute change when
\* color_index is outside 0..31 or the selection yields no shape node;
\* otherwise it returns None and, on every shape under the selection, has
\* set overrideEnabled to True and overrideColor to color_index, unless the
\* host rejected a setAttr on that shape
C17_OverrideColor ==
    entry = "override_color" =>
        LET shapes == get_shape_nodes
        IN  /\ raised = "none"
            /\ IF args.index \notin 0..31 \/ shapes = <<>>
               THEN returned = "False" /\ Edits \cup Rejections = {}
               ELSE /\ returned = "None"
                    /\ \A n \in 1..Len(shapes) :
                        \/ /\ Performed("setAttr.overrideEnabled", shapes[n],
                                         <<1>>)
                           /\ Performed("setAttr.overrideColor", shapes[n],
                                         <<args.index>>)
                        \/ \E i \in Rejections : log[i].on = <<shapes[n]>>

\* override_color has refused the index 32 although a shape is selected
C17_Witness ==
    /\ entry = "override_color"
    /\ args.index = 32
    /\ get_shape_nodes # <<>>
    /\ returned = "False"
    /\ Edits = {}

\* orient_joints went into the branch guarded by orient_tip: it asked for
\* the tip's jointOrient or failed looking the tip up
TipStep ==
    raised = "TypeError" \/ Issued({"setAttr.jointOrient"}) # {}

\* C18: for both values of the "Auto Orient Up" check box exactly one of
\* auto_orient_enable and orient_tip is true in orient_joints: checked, the
\* orientation command is given autoOrientSecondaryAxis=True and the tip
\* branch is not taken; unchecked, it is given False and the branch is taken
C18_ExactlyOneFlag ==
    entry = "orient_joints" =>
        \A i \in Edits :
            log[i].cmd \in OrientCmds =>
                /\ log[i].num[1] = (IF args.auto THEN 1 ELSE 0)
                /\ TipStep <=> ~args.auto
                /\ (log[i].num[1] = 1) # TipStep

\* orient_joints has run with the check box unchecked: the command got
\* autoOrientSecondaryAxis=False and the tip's jointOrient was set
C18_Witness ==
    /\ entry = "orient_joints"
    /\ ~args.auto
    /\ \E i \in Edits : log[i].cmd \in OrientCmds /\ log[i].num[1] = 0
    /\ \E i \in Edits : log[i].cmd = "setAttr.jointOrient"

\* C19: orient_joints(reset_to_world=True) passes the code 'none' to the
\* orientation command whatever the aim and up groups hold, and
\* orient_joints(reset_to_world=False) passes the code of the checked
\* (aim, up) pair
C19_CodePassed ==
    entry = "orient_joints" =>
        \A i \in Issued(OrientCmds) :
            log[i].arg[1] = (IF args.reset_to_world THEN "none"
                             ELSE get_axis_orientation_settings(aim, up))

\* "Orient Joints to World" with the groups on (Y, Z): 'none' is passed
C19_Witness ==
    /\ entry = "orient_joints"
    /\ args.reset_to_world
    /\ <<aim, up>> = <<"Y", "Z">>
    /\ \E i \in Edits : log[i].cmd \in OrientCmds /\ log[i].arg[1] = "none"

\* the undoInfo(stateWithoutFlush=...) requests of the call, in order
FlushRequests ==
    LET at == {i \in 1..Len(log) : log[i].cmd = "stateWithoutFlush"}
    IN  Filter(log, {log[i] : i \in at})

\* C21: a call of toggle_local_axis_visibility that returns (whatever the
\* path, the early return for no joints included) has disabled undo
\* recording first and has re-enabled it last, so that recording is on
\* when it returns
C21_UndoReenabled ==
    (entry = "toggle_local_axis_visibility" /\ raised = "none") =>
        /\ log # <<>>
        /\ log[1] = StateWithoutFlushOff
        /\ FlushRequests # <<>>
        /\ FlushRequests[Len(FlushRequests)] = StateWithoutFlushOn

\* spawn_fk_controls made a control for joint j: a curve, a group holding
\* the curve, and a parent constraint from j to the group
HasControl(j) ==
    \E g \in Edits, c \in Edits, p \in Edits :
        /\ log[g].cmd = "group"
        /\ log[c].cmd \in {"curve", "circle"}
        /\ log[c].on = <<log[g].on[1]>>
        /\ log[p].cmd = "parentConstraint"
        /\ log[p].on = <<j, log[g].on[2]>>

\* spawn_fk_controls asked something of the host about joint j
Touched(j) ==
    \E i \in Edits \cup Rejections :
        \E n \in 1..Len(log[i].on) : log[i].on[n] = j

\* C22: when spawn_fk_controls has run to its end on a list of joints that
\* all end with '_jnt', no control was made for a joint whose name contains
\* 'Tip' and every other joint of the list, those after a tip joint
\* included, has its curve, group and parent constraint
C22_TipsSkipped ==
    (/\ entry = "spawn_fk_controls"
     /\ Targeted.exc = "none"
     /\ raised = "none"
     /\ \A i \in 1..Len(Targeted.val) : EndsWith(Targeted.val[i], JntSuffix))
    => \A i \in 1..Len(Targeted.val) :
            IF Contains(Targeted.val[i], TipMark)
            THEN ~Touched(Targeted.val[i])
            ELSE HasControl(Targeted.val[i])

\* the vector the claim describes: the value of the spin box of the axis
\* times the direction on that axis, 0 on the other two
TweakVector ==
    LET v == args.value[args.axis] * args.direction
    IN  <<IF args.axis = "x" THEN v ELSE 0, IF args.axis = "y" THEN v ELSE 0,
          IF args.axis = "z" THEN v ELSE 0>>

\* C23: when rotate_local_axis_joint has run to its end on a non-empty list
\* of joints, its scene edits are, joint after joint in list order, the
\* relative object-space rotateAxis of the claim's vector on the joint
\* followed at once by the two commands that freeze that joint
C23_RotateThenFreeze ==
    (/\ entry = "rotate_local_axis_joint"
     /\ raised = "none"
     /\ Targeted.exc = "none"
     /\ Targeted.val # <<>>)
    => LET joints == Targeted.val
           body == SubSeq(log, 2, Len(log) - 1)
       IN  /\ log[1] = OpenChunk /\ log[Len(log)] = CloseChunk
           /\ Len(body) = 3 * Len(joints)
           /\ \A n \in 1..Len(joints) :
                /\ body[3 * n - 2] =
                       Ev("edit", "xform.rotateAxis", <<joints[n]>>,
                          <<"relative", "objectSpace">>, TweakVector)
                /\ body[3 * n - 1] =
                       Ev("edit", "joint.zeroScaleOrient", <<joints[n]>>,
                          <<>>, <<>>)
                /\ body[3 * n] =
                       Ev("edit", "makeIdentity", <<joints[n]>>, <<>>, <<>>)

\* the "-" button of the y axis has run in Hierarchy mode on 'a_jnt' with
\* the y spin box stepped down: three joints rotated by (0, -75, 0)
C23_Witness ==
    /\ entry = "rotate_local_axis_joint"
    /\ raised = "none"
    /\ args.axis = "y" /\ args.direction = -1 /\ args.hierarchy
    /\ args.sel = <<J1>>
    /\ Len(log) = 11
    /\ log[8].on = <<J3>> /\ log[8].num = <<0, -75, 0>>

\* C24: a correction made by handle_axis_orientation_toggle queues no call
\* of the handler (the only deliveries ever waiting are the two of the
\* button group the user clicked in), and between runs of the handler each
\* of the six radio buttons is connected to it exactly once
C24_ConnectedOnce ==
    /\ \A b \in Buttons : conn[b] = 1
    /\ Len(pending) <= 2
    /\ \A i \in 1..Len(pending) : pending[i].grp = changed.grp

\* the user chose aim = Z while up was Z; the handler has moved up to X
\* and returned, nothing is waiting and every button is connected once
C24_Witness ==
    /\ entry = "toggle"
    /\ pending = <<>>
    /\ changed = [grp |-> "aim", text |-> "Z", aim0 |-> "Y", up0 |-> "Z"]
    /\ <<aim, up>> = <<"Z", "X">>
    /\ \A b \in Buttons : conn[b] = 1

RECURSIVE Drain(_)
\* the dialog once every waiting toggled signal has been handled
Drain(st) ==
    IF st.queue = <<>> THEN st
    ELSE LET r == handle_axis_orientation_toggle(Head(st.queue), st.aim,
                                                 st.up, st.conn)
         IN  Drain([aim |-> r.aim, up |-> r.up, conn |-> r.conn,
                    queue |-> r.nested \o Tail(st.queue)])

\* the (aim, up) pair after the user selects a in group g at the pair p,
\* conflict resolution included
Selected(g, a, p, c) ==
    LET old == IF g = "aim" THEN p[1] ELSE p[2]
        st == Drain([aim |-> IF g = "aim" THEN a ELSE p[1],
                     up |-> IF g = "up" THEN a ELSE p[2],
                     conn |-> c,
                     queue |-> SetCheckedSignals(g, old, a, c)])
    IN  <<st.aim, st.up>>

RECURSIVE ReachableFrom(_, _)
\* the pairs some finite sequence of selections leads to from the pairs S
ReachableFrom(S, c) ==
    LET T == S \cup {Selected(g, a, p, c) : g \in Groups, a \in Axes, p \in S}
    IN  IF T = S THEN S ELSE ReachableFrom(T, c)

\* C25: each of the six pairs with aim # up is reached from the default
\* (X, Y) by a finite sequence of selections in the aim and up groups, each
\* followed by conflict resolution; a selection leads the dialog to the
\* pair that the handling of its two toggled signals gives
C25_AllPairsReachable ==
    /\ (entry = "toggle" /\ pending = <<>>)
            => <<aim, up>> = Selected(changed.grp, changed.text,
                                      <<changed.aim0, changed.up0>>, conn)
    /\ (entry = "idle" /\ <<aim, up>> = <<"X", "Y">>)
            => ValidPairs \subseteq ReachableFrom({<<aim, up>>}, conn)

\* from the default the user chose aim = Z and then up = X: the dialog is
\* at (Z, X), the pair farthest from the default
C25_Witness ==
    /\ entry = "toggle"
    /\ pending = <<>>
    /\ changed = [grp |-> "up", text |-> "X", aim0 |-> "Z", up0 |-> "Y"]
    /\ <<aim, up>> = <<"Z", "X">>

====
